---- MODULE Spec2Model ----
(***************************************************************************)
(* FitTrack Lite: the streak / freeze / XP engine.                         *)
(*                                                                         *)
(*   src/src/lib/firebase/config.ts   streak store  (lib/streak)           *)
(*   src/src/lib/xp.ts                XP store                             *)
(*   src/src/contexts/WorkoutContext.tsx   coordinator (React provider)    *)
(*                                                                         *)
(* Time.  A JavaScript Date is modelled by its LOCAL wall-clock reading,   *)
(* counted in hours: Date d  <->  24 * (local calendar day) + (local hour).*)
(* A date string "YYYY-MM-DD" is modelled by its calendar day number.      *)
(* Day numbers start at 2 (so that the UTC day of local day 2 is still a   *)
(* day number and not the null of a date field); day n falls on weekday    *)
(* n % 7 with 0 = Sunday, 1 = Monday, ..., 6 = Saturday.                   *)
(* The browser's zone is a fixed offset tz (local = UTC + tz hours);       *)
(* daylight-saving changes of the offset are not modelled.                 *)
(* new Date("YYYY-MM-DD") reads the string as UTC midnight and             *)
(* toISOString() prints the UTC date, while setHours, isSameDay,           *)
(* differenceInDays, subDays and isSunday work on the local reading.       *)
(***************************************************************************)
EXTENDS Integers, Sequences, FiniteSets

VARIABLES
    tz,            \* browser zone offset in hours, fixed for a behaviour
    today,         \* the current local calendar day (the clock)
    streakData,    \* React state of WorkoutProvider: StreakData
    xp,            \* React state of WorkoutProvider: XP total
    storedStreak,  \* localStorage['fitTrackStreakData']: <<>> or <<record>>
    storedXp,      \* localStorage['fitTrackUserXP']: <<>> or a digit string
    workouts,      \* the number of workouts in the collection
    faults,        \* the number of storage faults so far
    dates,         \* the local days with a workout since the last reset, as
                   \* kept by the specification that counts them
    tab2,          \* the React state of a second tab on the same store
    goalsPage,     \* React state of GoalsPage: goals, their rendering, updates
    xpCall,        \* the latest call of calculateXp: its arguments and result
    lastOp         \* the latest operation: its name, inputs and pre-state

vars == <<tz, today, streakData, xp, workouts, storedStreak, storedXp, faults,
         dates, tab2, goalsPage, xpCall, lastOp>>

----------------------------------------------------------------------------
(* Bounds *)

MaxDay == 10
MaxOffset == 5
MaxXp == 130
MaxFaults == 1
MaxFaultyDay == 4
MaxFaultyWorkouts == 3
MaxSnapshotStreak == 61
MaxXpArg == 2
MaxChainCalls == 3
MaxTabsDay == 3
MaxTabsWorkouts == 2
MaxGoalsWorkouts == 3
MaxGoalsQueue == 3
MaxDatesDay == 8
MaxDatesWorkouts == 6
MaxStoredStreak == 2
MaxStoredFreezes == 2

Days == 2..MaxDay
TimeZones == {0 - MaxOffset, 0, MaxOffset}

----------------------------------------------------------------------------
(* Dates *)

\* `string | null` fields of StreakData: null is 0, a date is a day number >= 1
Null == 0

\* new Date("YYYY-MM-DD"): UTC midnight of that day, read on the local clock
ParseDate(z, day) == 24 * day + z

\* date.toISOString().split('T')[0]: the UTC calendar day of a local reading
ToISODate(z, t) == (t - z) \div 24

\* date.setHours(0, 0, 0, 0): local midnight of the same local day
SetHoursZero(t) == 24 * (t \div 24)

\* date-fns isSameDay: same local calendar day
isSameDay(a, b) == (a \div 24) = (b \div 24)

\* date-fns subDays: same local time, n local days earlier
subDaysDouble(t, n) == t - 48 * n

subDays(t, n) == t - 24 * n

\* date-fns isSunday: getDay() = 0 on the local reading
isSunday(t) == (t \div 24) % 7 = 0

\* date-fns compareLocalAsc: sign of the difference of the local readings
compareLocalAsc(a, b) == IF a < b THEN 0 - 1 ELSE IF a > b THEN 1 ELSE 0

\* date-fns differenceInCalendarDays
differenceInCalendarDays(a, b) == (a \div 24) - (b \div 24)

Abs(n) == IF n < 0 THEN 0 - n ELSE n

\* date-fns differenceInDays: number of FULL days between two local readings
differenceInDaysUnsigned(dateLeft, dateRight) ==
    Abs(differenceInCalendarDays(dateLeft, dateRight))

differenceInDays(dateLeft, dateRight) ==
    LET sign == compareLocalAsc(dateLeft, dateRight)
        difference == Abs(differenceInCalendarDays(dateLeft, dateRight))
        shifted == dateLeft - 24 * (sign * difference)
        isLastDayNotFull ==
            IF compareLocalAsc(shifted, dateRight) = 0 - sign THEN 1 ELSE 0
    IN  sign * (difference - isLastDayNotFull)

----------------------------------------------------------------------------
(* Streak store *)

defaultStreakData ==
    [currentStreak |-> 0, longestStreak |-> 0, lastWorkoutDate |-> Null,
     streakFreezes |-> 0, lastFreezeEarnedDate |-> Null]

\* lines 88-101: the streak after a workout that is daysBetween full days
\* after the last one (hasLast), or the first ever (~hasLast)
streakAfterLe1(hasLast, daysBetween, currentStreak) ==
    IF hasLast
    THEN IF daysBetween <= 1 THEN currentStreak + 1 ELSE 1
    ELSE 1

streakAfter(hasLast, daysBetween, currentStreak) ==
    IF hasLast
    THEN IF daysBetween = 1 THEN currentStreak + 1
         ELSE IF daysBetween > 1 THEN 1
         ELSE currentStreak
    ELSE 1

\* lines 110-113: longestStreak follows currentStreak upward
longestAfterStale(currentStreak, longestStreak) == longestStreak

longestAfter(currentStreak, longestStreak) ==
    IF currentStreak > longestStreak THEN currentStreak ELSE longestStreak

\* lines 105-107: lastWorkoutDate moves only to a later date
lastWorkoutDateAfterAny(hasLast, isLater, newDate, lastDate) == newDate

lastWorkoutDateAfter(hasLast, isLater, newDate, lastDate) ==
    IF ~hasLast \/ isLater THEN newDate ELSE lastDate

\* The record updateStreakData returns for the workout Date newWorkout
\* (any local reading; line 75 normalises it to local midnight).
updateStreakData(z, currentData, newWorkout) ==
    LET newWorkoutDate == SetHoursZero(newWorkout)
        hasLast == currentData.lastWorkoutDate # Null
        lastWorkoutDate == ParseDate(z, currentData.lastWorkoutDate)
        daysBetween == differenceInDays(newWorkoutDate, lastWorkoutDate)
        streak1 == streakAfter(hasLast, daysBetween, currentData.currentStreak)
        \* lines 105-107
        last1 ==
            lastWorkoutDateAfter(hasLast, newWorkoutDate > lastWorkoutDate,
                                 ToISODate(z, newWorkoutDate),
                                 currentData.lastWorkoutDate)
        longest1 == longestAfter(streak1, currentData.longestStreak)
        \* lines 117-130
        hasEarned == currentData.lastFreezeEarnedDate # Null
        lastEarnedDate == ParseDate(z, currentData.lastFreezeEarnedDate)
        justReachedMilestone ==
            streak1 > currentData.currentStreak /\ streak1 % 7 = 0
        milestoneStartDate == subDays(newWorkoutDate, streak1 % 7)
        \* line 130; updatedStreak.lastFreezeEarnedDate is still the copy of
        \* currentData's field there, so its third conjunct compares equals
        alreadyEarnedThisMilestone ==
            /\ hasEarned
            /\ lastEarnedDate >= milestoneStartDate
            /\ currentData.lastFreezeEarnedDate = currentData.lastFreezeEarnedDate
        earnsFreeze == justReachedMilestone /\ ~alreadyEarnedThisMilestone
    IN  IF hasLast /\ isSameDay(newWorkoutDate, lastWorkoutDate)
        THEN currentData                                    \* lines 82-85
        ELSE [currentStreak |-> streak1,
              longestStreak |-> longest1,
              lastWorkoutDate |-> last1,
              streakFreezes |->
                  IF earnsFreeze THEN currentData.streakFreezes + 1
                  ELSE currentData.streakFreezes,
              lastFreezeEarnedDate |->
                  IF earnsFreeze THEN ToISODate(z, newWorkoutDate)
                  ELSE currentData.lastFreezeEarnedDate]

\* line 170: a gap of exactly 2 whose skipped day was a Sunday
restDayExceptionNever(daysSinceLast, yesterday) == FALSE

restDayException(daysSinceLast, yesterday) ==
    daysSinceLast = 2 /\ isSunday(yesterday)

\* line 177: enough freezes to cover every missed day
freezesCoverAlways(streakFreezes, gapDays) == TRUE

freezesCover(streakFreezes, gapDays) == streakFreezes >= gapDays

\* lines 179-184: freezes pay for the missed days and lastWorkoutDate moves
\* to yesterday
gapBridgedInPlace(data, gapDays, yesterdayDate) ==
    [data EXCEPT !.streakFreezes = @ - gapDays]

gapBridged(data, gapDays, yesterdayDate) ==
    [data EXCEPT !.streakFreezes = @ - gapDays,
                 !.lastWorkoutDate = yesterdayDate]

\* lines 193-204: the streak is broken, every other field stays
streakBrokenByOne(data) == [data EXCEPT !.currentStreak = @ - 1]

streakBroken(data) == [data EXCEPT !.currentStreak = 0]

\* The record checkAndResetStreak returns when the clock reads local day now
checkAndResetStreak(z, data, now) ==
    LET todayDate == SetHoursZero(24 * now)
        hasLast == data.lastWorkoutDate # Null
        lastWorkoutDate == ParseDate(z, data.lastWorkoutDate)
        daysSinceLast == differenceInDays(todayDate, lastWorkoutDate)
        yesterday == subDays(todayDate, 1)
        gapDays == daysSinceLast - 1
    IN  IF ~hasLast \/ isSameDay(todayDate, lastWorkoutDate) THEN data
        ELSE IF daysSinceLast = 1 THEN data
        ELSE IF daysSinceLast > 1
        THEN IF restDayException(daysSinceLast, yesterday) THEN data
             ELSE IF freezesCover(data.streakFreezes, gapDays)
             THEN gapBridged(data, gapDays, ToISODate(z, yesterday))
             ELSE streakBroken(data)
        ELSE data

\* Whether checkAndResetStreak reaches one of its two saveStreakData calls
checkSaves(z, data, now) ==
    LET todayDate == SetHoursZero(24 * now)
        lastWorkoutDate == ParseDate(z, data.lastWorkoutDate)
        daysSinceLast == differenceInDays(todayDate, lastWorkoutDate)
    IN  /\ data.lastWorkoutDate # Null
        /\ ~isSameDay(todayDate, lastWorkoutDate)
        /\ daysSinceLast > 1
        /\ ~restDayException(daysSinceLast, subDays(todayDate, 1))

\* The toast titles checkAndResetStreak emits (lines 187 and 196)
checkToasts(z, data, now) ==
    LET todayDate == SetHoursZero(24 * now)
        lastWorkoutDate == ParseDate(z, data.lastWorkoutDate)
        daysSinceLast == differenceInDays(todayDate, lastWorkoutDate)
    IN  IF ~checkSaves(z, data, now) THEN {}
        ELSE IF freezesCover(data.streakFreezes, daysSinceLast - 1)
             THEN {"Streak Saved!"}
             ELSE {"Streak Reset"}

\* The toast titles updateStreakData emits (line 136): one per freeze earned
updateToasts(currentData, updatedStreak) ==
    IF updatedStreak.streakFreezes > currentData.streakFreezes
    THEN {"Streak Freeze Earned!"} ELSE {}

\* localStorage content after saveStreakData(data)
saveStreakData(data) == <<data>>

\* A stored value that is not JSON: JSON.parse throws on it
CorruptJson == [unparseable |-> TRUE]

\* localStorage.setItem: the new content, or the old one when setItem throws
\* (quota exceeded); both callers catch the exception
setItemClears(stored, value, ok) == IF ok THEN value ELSE <<>>

setItem(stored, value, ok) == IF ok THEN value ELSE stored

\* localStorage.removeItem: the key is gone
removeItemKeeps(stored) == stored

removeItem(stored) == <<>>

\* getInitialStreakData lines 51-65: the stored record; the default when the
\* key is absent or JSON.parse throws (caught at line 63)
loadedStreakData(stored) ==
    IF stored # <<>> /\ stored[1] # CorruptJson
    THEN stored[1] ELSE defaultStreakData

getInitialStreakData(z, stored, now) ==
    checkAndResetStreak(z, loadedStreakData(stored), now)

----------------------------------------------------------------------------
(* XP store *)

BASE_WORKOUT_XP == 10
DAILY_GOAL_COMPLETION_XP == 5
GOAL_COMPLETION_BASE_XP == 100

\* Object.keys(STREAK_MILESTONE_XP).map(Number).sort((a, b) => a - b)
MilestoneDays == <<7, 14, 30, 60>>

STREAK_MILESTONE_XP(milestoneDays) ==
    CASE milestoneDays = 7 -> 50
      [] milestoneDays = 14 -> 100
      [] milestoneDays = 30 -> 250
      [] milestoneDays = 60 -> 500

\* The for loop of lines 59-73 from index i on: the bonus of the first
\* milestone with previousStreak < milestoneDays <= currentStreak, then break
RECURSIVE MilestoneBonusNoBreak(_, _, _)
MilestoneBonusNoBreak(i, previousStreak, currentStreak) ==
    IF i > Len(MilestoneDays) THEN 0
    ELSE (IF currentStreak >= MilestoneDays[i] /\ previousStreak < MilestoneDays[i]
          THEN STREAK_MILESTONE_XP(MilestoneDays[i]) ELSE 0)
         + MilestoneBonusNoBreak(i + 1, previousStreak, currentStreak)

RECURSIVE MilestoneBonusAgain(_, _, _)
MilestoneBonusAgain(i, previousStreak, currentStreak) ==
    IF i > Len(MilestoneDays) THEN 0
    ELSE IF currentStreak >= MilestoneDays[i]
         THEN STREAK_MILESTONE_XP(MilestoneDays[i])
         ELSE MilestoneBonusAgain(i + 1, previousStreak, currentStreak)

RECURSIVE MilestoneBonus(_, _, _)
MilestoneBonus(i, previousStreak, currentStreak) ==
    IF i > Len(MilestoneDays) THEN 0
    ELSE IF currentStreak >= MilestoneDays[i] /\ previousStreak < MilestoneDays[i]
         THEN STREAK_MILESTONE_XP(MilestoneDays[i])
         ELSE MilestoneBonus(i + 1, previousStreak, currentStreak)

\* Math.round of x = k / 10
RoundTenthsDown(k) == (k - 5) \div 10

RoundTenths(k) == (k + 5) \div 10

\* xpGained of calculateXp, in tenths of a point.  An event is a record with
\* field type and, for complete_goal, difficultyMultiplier: <<>> when omitted,
\* <<m>> for the multiplier m / 1000.  A snapshot argument is <<>> when
\* omitted and <<StreakData>> when given.
xpGainedTenths(event, currentStreakData, previousStreakData) ==
    CASE event.type = "log_workout" ->
            10 * (BASE_WORKOUT_XP +
                  IF currentStreakData # <<>> /\ previousStreakData # <<>>
                  THEN MilestoneBonus(1, previousStreakData[1].currentStreak,
                                         currentStreakData[1].currentStreak)
                  ELSE 0)
      [] event.type = "complete_goal" ->
            IF event.difficultyMultiplier # <<>> /\ event.difficultyMultiplier[1] # 0
            THEN (GOAL_COMPLETION_BASE_XP * event.difficultyMultiplier[1]) \div 100
            ELSE 10 * GOAL_COMPLETION_BASE_XP
      [] event.type = "complete_daily_target" ->
            10 * DAILY_GOAL_COMPLETION_XP

\* The new total calculateXp returns (and hands to saveXp)
calculateXpNoGain(currentXp, event, currentStreakData, previousStreakData) ==
    currentXp

calculateXp(currentXp, event, currentStreakData, previousStreakData) ==
    currentXp + RoundTenths(xpGainedTenths(event, currentStreakData, previousStreakData))

\* A stored string is a sequence of characters: the digits 0..9 stand for
\* themselves, Minus for '-' and Letter for any other character
Minus == 45
Letter == 120

\* The decimal digits of a non-negative integer
RECURSIVE Digits(_)
Digits(n) ==
    IF n < 10 THEN <<n>> ELSE Append(Digits(n \div 10), n % 10)

\* Number.prototype.toString of an integer
xpToString(n) == IF n < 0 THEN <<Minus>> \o Digits(0 - n) ELSE Digits(n)

\* The longest prefix of s made of digits
RECURSIVE DigitPrefix(_)
DigitPrefix(s) ==
    IF Len(s) = 0 \/ s[1] \notin 0..9 THEN <<>>
    ELSE <<s[1]>> \o DigitPrefix(Tail(s))

\* The value of a digit string
RECURSIVE DigitsValue(_)
DigitsValue(s) ==
    IF Len(s) = 0 THEN 0
    ELSE 10 * DigitsValue(SubSeq(s, 1, Len(s) - 1)) + s[Len(s)]

\* parseInt(s, 10): an optional sign, then digits up to the first other
\* character; <<>> stands for NaN (no digit), <<n>> for the number n
parseInt(s) ==
    LET negative == Len(s) > 0 /\ s[1] = Minus
        digits == DigitPrefix(IF negative THEN Tail(s) ELSE s)
    IN  IF digits = <<>> THEN <<>>
        ELSE <<(IF negative THEN 0 - DigitsValue(digits) ELSE DigitsValue(digits))>>

\* localStorage content after saveXp(xp)
saveXpZero(n) == xpToString(0)

saveXp(n) == xpToString(n)

\* loadXp: the stored total; 0 when the key is absent or empty (line 111) or
\* parseInt yields NaN (line 113)
loadXp(stored) ==
    IF stored # <<>> /\ parseInt(stored) # <<>> THEN parseInt(stored)[1] ELSE 0

\* The toast titles calculateXp emits: the milestone toast (line 66), the
\* goal toast (line 83) and saveXp's error toast (line 130)
xpToasts(event, currentStreakData, previousStreakData, saved) ==
    (IF /\ event.type = "log_workout"
        /\ currentStreakData # <<>> /\ previousStreakData # <<>>
        /\ MilestoneBonus(1, previousStreakData[1].currentStreak,
                             currentStreakData[1].currentStreak) > 0
     THEN {"Streak Milestone!"} ELSE {})
    \cup (IF event.type = "complete_goal" THEN {"Goal Completed!"} ELSE {})
    \cup (IF saved THEN {} ELSE {"XP Save Error"})

----------------------------------------------------------------------------
(* Coordinator: WorkoutProvider *)

\* tab2 while no second tab is open
ClosedTab ==
    [open |-> FALSE, streakData |-> defaultStreakData, xp |-> 0,
     workouts |-> 0]

\* goalsPage while the goals page is not mounted
NoGoalsPage == [mounted |-> FALSE]

\* xpCall while calculateXp has not been called on its own
NoCall == [currentXp |-> 0, previous |-> 0, current |-> 0, pending |-> FALSE,
           result |-> 0]

\* The multipliers markGoalAsComplete computes, in thousandths:
\* 1 + log10(max(1, days / 7)) for a goal of up to 7 days and of 14 days
GoalMultipliers == {1000, 1301}

\* lastOp after an operation: its name and inputs, the state before it, the
\* toast titles it emitted, the storage accesses that failed in it, and
\* whether nothing but loads and midnights happened since the last reset
OpRecord(name, date, multiplier, before, toasts, failed, sinceReset) ==
    [op |-> name, date |-> date, multiplier |-> multiplier, today |-> today,
     prevStreak |-> before, prevXp |-> xp, prevWorkouts |-> workouts,
     prevStoredStreak |-> storedStreak, prevStoredXp |-> storedXp,
     toasts |-> toasts, failed |-> failed, sinceReset |-> sinceReset]

Init ==
    /\ tz \in TimeZones
    /\ today = 2
    /\ streakData = defaultStreakData
    /\ xp = 0
    /\ workouts = 0
    /\ storedStreak = <<>>
    /\ storedXp = <<>>
    /\ faults = 0
    /\ dates = {}
    /\ tab2 = ClosedTab
    /\ goalsPage = NoGoalsPage
    /\ xpCall = NoCall
    /\ lastOp = OpRecord("init", Null, <<>>, defaultStreakData, {}, {}, FALSE)

\* The number of storage faults a step injects
FaultCount(flags) == Cardinality({i \in DOMAIN flags : ~flags[i]})

\* The mount effect (lines 39-82): a page load reads the stores; the streak
\* store runs its gap check on what it read and saves when the check acted.
\* canRead: localStorage can be read; when it cannot, getItem throws at line
\* 47 and the catch of line 65 toasts and falls back to the defaults.
\* okS: the setItem of saveStreakData succeeds.
mount(canRead, okS) ==
    LET loaded == loadedStreakData(storedStreak)
        checked == getInitialStreakData(tz, storedStreak, today)
        saves == checkSaves(tz, loaded, today)
    IN  /\ faults + FaultCount(<<canRead, okS>>) <= MaxFaults
        /\ ~okS => (canRead /\ saves)
        /\ faults' = faults + FaultCount(<<canRead, okS>>)
        /\ IF canRead
           THEN /\ streakData' = checked
                /\ storedStreak' =
                       IF saves
                       THEN setItem(storedStreak, saveStreakData(checked), okS)
                       ELSE storedStreak
                /\ xp' = loadXp(storedXp)
                /\ workouts' = workouts
                /\ lastOp' = OpRecord("load", Null, <<>>, loaded,
                                      checkToasts(tz, loaded, today),
                                      IF okS THEN {} ELSE {"streak write"},
                                      lastOp.sinceReset)
           ELSE /\ streakData' = defaultStreakData
                /\ storedStreak' = storedStreak
                /\ xp' = 0
                /\ workouts' = 0
                /\ lastOp' = OpRecord("load", Null, <<>>, defaultStreakData,
                                      {"Error"}, {"read"}, lastOp.sinceReset)
        /\ UNCHANGED <<dates, tab2, goalsPage>>
        /\ UNCHANGED <<tz, today, storedXp, xpCall>>

Mount == mount(TRUE, TRUE)

\* addWorkout (lines 106-150) for a workout on local day d at local hour h.
\* The form offers no date after today.  The streak updater captures the
\* previous record and stores updateStreakData's result; the XP updater
\* passes calculateXp the streakData of the render that created the callback,
\* which is the record before this update.
\* okS, okX: the setItem of saveStreakData and of saveXp succeed.
addWorkoutStored(d, h, okS, okX) ==
    LET previousStreakData == streakData
        updatedStreak == updateStreakData(tz, streakData, 24 * d + h)
        currentStreak == streakData
        event == [type |-> "log_workout"]
        newTotalXp == calculateXp(xp, event,
                                  <<currentStreak>>, <<previousStreakData>>)
    IN  /\ d <= today
        /\ newTotalXp <= MaxXp
        /\ faults + FaultCount(<<okS, okX>>) <= MaxFaults
        /\ faults' = faults + FaultCount(<<okS, okX>>)
        /\ streakData' = updatedStreak
        /\ storedStreak' =
               setItem(storedStreak, saveStreakData(updatedStreak), okS)
        /\ workouts' = workouts + 1
        /\ xp' = newTotalXp
        /\ storedXp' = setItem(storedXp, saveXp(newTotalXp), okX)
        /\ lastOp' = OpRecord("recordWorkout", d, <<>>, streakData,
                              updateToasts(streakData, updatedStreak)
                                \cup xpToasts(event, <<currentStreak>>,
                                              <<previousStreakData>>, okX)
                                \cup {"Workout Logged!"},
                              (IF okS THEN {} ELSE {"streak write"})
                                \cup (IF okX THEN {} ELSE {"xp write"}),
                              FALSE)
        /\ UNCHANGED <<tab2, goalsPage>>
        /\ UNCHANGED <<tz, today, xpCall>>

addWorkout(d, h) == addWorkoutStored(d, h, TRUE, TRUE) /\ UNCHANGED dates

AddWorkout == \E d \in Days, h \in {0, 18} : addWorkout(d, h)

\* logGoalCompletion (lines 153-161) with the multiplier m / 1000
logGoalCompletionRestarting(m, okX) ==
    LET event == [type |-> "complete_goal", difficultyMultiplier |-> <<m>>]
        newTotalXp == calculateXp(xp, event, <<>>, <<>>)
    IN  /\ newTotalXp <= MaxXp
        /\ faults + FaultCount(<<okX>>) <= MaxFaults
        /\ faults' = faults + FaultCount(<<okX>>)
        /\ xp' = newTotalXp
        /\ storedXp' = setItem(storedXp, saveXp(newTotalXp), okX)
        /\ streakData' = defaultStreakData
        /\ lastOp' = OpRecord("logGoalCompletion", Null, <<m>>, streakData,
                              xpToasts(event, <<>>, <<>>, okX),
                              IF okX THEN {} ELSE {"xp write"}, FALSE)
        /\ UNCHANGED <<dates, tab2, goalsPage>>
        /\ UNCHANGED <<tz, today, storedStreak, workouts, xpCall>>

logGoalCompletionStored(m, okX) ==
    LET event == [type |-> "complete_goal", difficultyMultiplier |-> <<m>>]
        newTotalXp == calculateXp(xp, event, <<>>, <<>>)
    IN  /\ newTotalXp <= MaxXp
        /\ faults + FaultCount(<<okX>>) <= MaxFaults
        /\ faults' = faults + FaultCount(<<okX>>)
        /\ xp' = newTotalXp
        /\ storedXp' = setItem(storedXp, saveXp(newTotalXp), okX)
        /\ lastOp' = OpRecord("logGoalCompletion", Null, <<m>>, streakData,
                              xpToasts(event, <<>>, <<>>, okX),
                              IF okX THEN {} ELSE {"xp write"}, FALSE)
        /\ UNCHANGED <<dates, tab2, goalsPage>>
        /\ UNCHANGED <<tz, today, streakData, storedStreak, workouts, xpCall>>

logGoalCompletion(m) == logGoalCompletionStored(m, TRUE)

LogGoalCompletion == \E m \in GoalMultipliers : logGoalCompletion(m)

\* resetWorkouts (lines 165-193): the keys removed, the states defaulted
ResetWorkouts ==
    /\ streakData' = defaultStreakData
    /\ storedStreak' = removeItem(storedStreak)
    /\ workouts' = 0
    /\ xp' = 0
    /\ storedXp' = removeItem(storedXp)
    /\ dates' = {}
    /\ lastOp' = OpRecord("reset", Null, <<>>, streakData,
                          {"Stats Reset"}, {}, TRUE)
    /\ UNCHANGED <<tab2, goalsPage>>
    /\ UNCHANGED <<tz, today, faults, xpCall>>

\* The clock: midnight passes, up to the last day explored
tick(lastDay) ==
    /\ today < lastDay
    /\ today' = today + 1
    /\ lastOp' = [OpRecord("tick", Null, <<>>, streakData, {}, {},
                           lastOp.sinceReset) EXCEPT !.today = today + 1]
    /\ UNCHANGED <<dates, tab2, goalsPage>>
    /\ UNCHANGED <<tz, streakData, xp, workouts, storedStreak, storedXp,
                   faults, xpCall>>

Tick == tick(MaxDay)

Next == Mount \/ AddWorkout \/ LogGoalCompletion \/ ResetWorkouts \/ Tick

Spec == Init /\ [][Next]_vars

----------------------------------------------------------------------------
(* The same program over a storage that may fail *)

MountFaulty == \E canRead \in BOOLEAN, okS \in BOOLEAN : mount(canRead, okS)

AddWorkoutFaulty ==
    \E d \in Days, h \in {0, 18}, okS \in BOOLEAN, okX \in BOOLEAN :
        /\ workouts < MaxFaultyWorkouts
        /\ addWorkoutStored(d, h, okS, okX)
        /\ UNCHANGED dates

LogGoalCompletionFaulty ==
    \E m \in GoalMultipliers, okX \in BOOLEAN : logGoalCompletionStored(m, okX)

\* Strings that are not numbers: "x" and "1x"
NotNumbers == {<<Letter>>, <<1, Letter>>}

\* Something other than this program leaves a value under one of the keys
\* that is not JSON, respectively not a number
CorruptStorage ==
    /\ faults < MaxFaults
    /\ faults' = faults + 1
    /\ \/ storedStreak' = <<CorruptJson>> /\ storedXp' = storedXp
       \/ storedXp' \in NotNumbers /\ storedStreak' = storedStreak
    /\ lastOp' = OpRecord("corrupt", Null, <<>>, streakData, {}, {},
                          lastOp.sinceReset)
    /\ UNCHANGED <<dates, tab2, goalsPage>>
    /\ UNCHANGED <<tz, today, streakData, xp, workouts, xpCall>>

TickFaulty == tick(MaxFaultyDay)

NextFaulty ==
    \/ MountFaulty
    \/ AddWorkoutFaulty
    \/ LogGoalCompletionFaulty
    \/ ResetWorkouts
    \/ TickFaulty
    \/ CorruptStorage

SpecFaulty == Init /\ [][NextFaulty]_vars

----------------------------------------------------------------------------
(* calculateXp on its own: one log_workout call with both snapshots *)

snapshot(n) == [defaultStreakData EXCEPT !.currentStreak = n, !.longestStreak = n]

InitAward ==
    /\ tz = 0
    /\ today = 2
    /\ streakData = defaultStreakData
    /\ xp \in 0..MaxXpArg
    /\ workouts = 0
    /\ storedStreak = <<>>
    /\ storedXp = saveXp(xp)
    /\ faults = 0
    /\ dates = {}
    /\ tab2 = ClosedTab
    /\ goalsPage = NoGoalsPage
    /\ xpCall \in [currentXp : {xp}, previous : 0..MaxSnapshotStreak,
                    current : 0..MaxSnapshotStreak, pending : {TRUE},
                    result : {0}]
    /\ lastOp = OpRecord("init", Null, <<>>, defaultStreakData, {}, {}, FALSE)

Award ==
    LET newTotalXp == calculateXp(xpCall.currentXp, [type |-> "log_workout"],
                                  <<snapshot(xpCall.current)>>,
                                  <<snapshot(xpCall.previous)>>)
    IN  /\ xpCall.pending
        /\ xpCall' = [xpCall EXCEPT !.pending = FALSE, !.result = newTotalXp]
        /\ xp' = newTotalXp
        /\ storedXp' = saveXp(newTotalXp)
        /\ lastOp' = [lastOp EXCEPT !.op = "award"]
        /\ UNCHANGED <<dates, tab2, goalsPage>>
        /\ UNCHANGED <<tz, today, streakData, workouts, storedStreak, faults>>

NextAward == Award

SpecAward == InitAward /\ [][NextAward]_vars

----------------------------------------------------------------------------
(* The XP store on its own: calculateXp, loadXp and resetXp called with any
   event *)

\* difficultyMultiplier arguments: omitted, 0, 0.004, 0.005, 1, 1.301, -0.25
XpMultipliers == {<<>>, <<0>>, <<4>>, <<5>>, <<1000>>, <<1301>>, <<0 - 250>>}

XpEvents ==
    {[type |-> "log_workout"], [type |-> "complete_daily_target"]}
    \cup {[type |-> "complete_goal", difficultyMultiplier |-> m] :
              m \in XpMultipliers}

\* The snapshot pairs passed along: none, or a streak going from 6 to 7
XpSnapshots == {<<>>, <<snapshot(6), snapshot(7)>>}

InitXp ==
    /\ tz = 0
    /\ today = 2
    /\ streakData = defaultStreakData
    /\ xp = 0
    /\ workouts = 0
    /\ storedStreak = <<>>
    /\ storedXp = <<>>
    /\ faults = 0
    /\ dates = {}
    /\ tab2 = ClosedTab
    /\ goalsPage = NoGoalsPage
    /\ xpCall = NoCall
    /\ lastOp = OpRecord("init", Null, <<>>, defaultStreakData, {}, {}, FALSE)

XpAward ==
    \E event \in XpEvents, snapshots \in XpSnapshots :
        LET previousStreakData ==
                IF snapshots = <<>> THEN <<>> ELSE <<snapshots[1]>>
            currentStreakData ==
                IF snapshots = <<>> THEN <<>> ELSE <<snapshots[2]>>
            newTotalXp == calculateXp(xp, event,
                                      currentStreakData, previousStreakData)
        IN  /\ newTotalXp <= MaxXp
            /\ newTotalXp >= 0 - MaxXp
            /\ xp' = newTotalXp
            /\ storedXp' = setItem(storedXp, saveXp(newTotalXp), TRUE)
            /\ lastOp' = OpRecord(event.type, Null,
                                  IF event.type = "complete_goal"
                                  THEN event.difficultyMultiplier ELSE <<>>,
                                  IF snapshots = <<>> THEN defaultStreakData
                                  ELSE snapshots[1],
                                  xpToasts(event, currentStreakData,
                                           previousStreakData, TRUE),
                                  {}, FALSE)
            /\ UNCHANGED <<dates, tab2, goalsPage>>
            /\ UNCHANGED <<tz, today, streakData, workouts, storedStreak,
                           faults, xpCall>>

XpLoad ==
    /\ xp' = loadXp(storedXp)
    /\ lastOp' = OpRecord("loadXp", Null, <<>>, defaultStreakData, {}, {},
                          lastOp.sinceReset)
    /\ UNCHANGED <<dates, tab2, goalsPage>>
    /\ UNCHANGED <<tz, today, streakData, workouts, storedStreak, storedXp,
                   faults, xpCall>>

XpReset ==
    /\ xp' = 0
    /\ storedXp' = removeItem(storedXp)
    /\ lastOp' = OpRecord("resetXp", Null, <<>>, defaultStreakData, {}, {},
                          TRUE)
    /\ UNCHANGED <<dates, tab2, goalsPage>>
    /\ UNCHANGED <<tz, today, streakData, workouts, storedStreak, faults,
                   xpCall>>

NextXp == XpAward \/ XpLoad \/ XpReset

SpecXp == InitXp /\ [][NextXp]_vars

----------------------------------------------------------------------------
(* Two tabs of the same browser: each runs its own WorkoutProvider with its
   own React state, over the one localStorage.  The first tab is streakData,
   xp and workouts; the second is tab2. *)

\* OpRecord for an operation of the second tab
Tab2Record(name, date, multiplier, toasts) ==
    [OpRecord(name, date, multiplier, tab2.streakData, toasts, {},
              lastOp.sinceReset)
        EXCEPT !.prevXp = tab2.xp, !.prevWorkouts = tab2.workouts]

\* The mount effect in the second tab: the tab is opened or reloaded
Tab2Mount ==
    LET loaded == loadedStreakData(storedStreak)
        checked == getInitialStreakData(tz, storedStreak, today)
    IN  /\ tab2' = [open |-> TRUE, streakData |-> checked,
                    xp |-> loadXp(storedXp), workouts |-> tab2.workouts]
        /\ storedStreak' =
               IF checkSaves(tz, loaded, today)
               THEN setItem(storedStreak, saveStreakData(checked), TRUE)
               ELSE storedStreak
        /\ lastOp' = [Tab2Record("tab2 load", Null, <<>>,
                                 checkToasts(tz, loaded, today))
                         EXCEPT !.prevStreak = loaded]
        /\ UNCHANGED <<tz, today, streakData, xp, workouts, storedXp, faults,
                       dates, goalsPage, xpCall>>

\* addWorkout in the second tab
Tab2AddWorkout ==
    \E d \in Days :
        LET updatedStreak == updateStreakData(tz, tab2.streakData, 24 * d)
            event == [type |-> "log_workout"]
            newTotalXp == calculateXp(tab2.xp, event, <<tab2.streakData>>,
                                      <<tab2.streakData>>)
        IN  /\ tab2.open
            /\ d <= today
            /\ tab2.workouts < MaxTabsWorkouts
            /\ tab2' = [open |-> TRUE, streakData |-> updatedStreak,
                        xp |-> newTotalXp, workouts |-> tab2.workouts + 1]
            /\ storedStreak' =
                   setItem(storedStreak, saveStreakData(updatedStreak), TRUE)
            /\ storedXp' = setItem(storedXp, saveXp(newTotalXp), TRUE)
            /\ lastOp' = Tab2Record("tab2 recordWorkout", d, <<>>,
                                    updateToasts(tab2.streakData, updatedStreak)
                                      \cup xpToasts(event, <<tab2.streakData>>,
                                                    <<tab2.streakData>>, TRUE)
                                      \cup {"Workout Logged!"})
            /\ UNCHANGED <<tz, today, streakData, xp, workouts, faults, dates,
                           goalsPage, xpCall>>

\* logGoalCompletion in the second tab
Tab2LogGoalCompletion ==
    \E m \in GoalMultipliers :
        LET event == [type |-> "complete_goal", difficultyMultiplier |-> <<m>>]
            newTotalXp == calculateXp(tab2.xp, event, <<>>, <<>>)
        IN  /\ tab2.open
            /\ newTotalXp <= MaxXp
            /\ tab2' = [tab2 EXCEPT !.xp = newTotalXp]
            /\ storedXp' = setItem(storedXp, saveXp(newTotalXp), TRUE)
            /\ lastOp' = Tab2Record("tab2 logGoalCompletion", Null, <<m>>,
                                    xpToasts(event, <<>>, <<>>, TRUE))
            /\ UNCHANGED <<tz, today, streakData, xp, workouts, storedStreak,
                           faults, dates, goalsPage, xpCall>>

AddWorkoutTabs ==
    \E d \in Days :
        workouts < MaxTabsWorkouts /\ addWorkout(d, 0)

TickTabs == tick(MaxTabsDay)

NextTabs ==
    \/ Mount
    \/ AddWorkoutTabs
    \/ LogGoalCompletion
    \/ Tab2Mount
    \/ Tab2AddWorkout
    \/ Tab2LogGoalCompletion
    \/ TickTabs

SpecTabs == Init /\ [][NextTabs]_vars

----------------------------------------------------------------------------
(* The goals page (app/goals/page.tsx) on top of the provider.  goalsPage is
   the page's state: goals is the state of useState (the completed flag of
   each goal), rendered is the goals array of the last render, which is what
   the completion effect iterates, queue holds the setGoals updaters that
   markGoalAsComplete has dispatched and React has not applied yet, awards
   counts the logGoalCompletion calls per goal id, and last describes the
   updater applied last. *)

GoalIds == {1, 2}

GoalOrder == <<1, 2>>

\* calculateGoalProgress(goal, workouts).isConsideredComplete: every day of
\* the goal's duration has met the target; a goal of n days with a target of
\* one workout a day is complete with n logged days
GoalDays == <<1, 2>>

isConsideredComplete(g, logged) == logged >= GoalDays[g]

\* difficultyMultiplier of line 299 in thousandths: 1 + log10(max(1, days/7))
\* is 1 for the goals of up to a week and 1.301 for a goal of two weeks
GoalDifficulty == <<1000, 1301>>

\* The updater of markGoalAsComplete (lines 280-304) on prevGoals: the new
\* goals and whether logGoalCompletion was called
markGoalAsCompleteAgain(prevGoals, goalId) ==
    IF goalId \notin DOMAIN prevGoals
    THEN [goals |-> prevGoals, awarded |-> FALSE]
    ELSE [goals |-> [prevGoals EXCEPT ![goalId] = TRUE], awarded |-> TRUE]

markGoalAsComplete(prevGoals, goalId) ==
    IF goalId \notin DOMAIN prevGoals \/ prevGoals[goalId]
    THEN [goals |-> prevGoals, awarded |-> FALSE]
    ELSE [goals |-> [prevGoals EXCEPT ![goalId] = TRUE], awarded |-> TRUE]

\* The page is opened with its goals not completed
GoalsMount ==
    /\ ~goalsPage.mounted
    /\ goalsPage' = [mounted |-> TRUE,
                     goals |-> [g \in GoalIds |-> FALSE],
                     rendered |-> [g \in GoalIds |-> FALSE],
                     queue |-> <<>>,
                     awards |-> [g \in GoalIds |-> 0],
                     last |-> [goal |-> 0, wasCompleted |-> FALSE,
                               awarded |-> FALSE]]
    /\ lastOp' = OpRecord("goals mount", Null, <<>>, streakData, {}, {},
                          lastOp.sinceReset)
    /\ UNCHANGED <<tz, today, streakData, xp, workouts, storedStreak,
                   storedXp, faults, dates, tab2, xpCall>>

AddWorkoutGoals ==
    \E d \in Days :
        workouts < MaxGoalsWorkouts /\ addWorkout(d, 0)

\* The completion effect (lines 309-323) over the goals of the last render:
\* markGoalAsComplete is dispatched for every goal that render shows as not
\* completed and that the workouts complete
CompletionEffect ==
    LET due(g) == ~goalsPage.rendered[g] /\ isConsideredComplete(g, workouts)
        calls == SelectSeq(GoalOrder, due)
    IN  /\ goalsPage.mounted
        /\ calls # <<>>
        /\ Len(goalsPage.queue) + Len(calls) <= MaxGoalsQueue
        /\ goalsPage' = [goalsPage EXCEPT !.queue = @ \o calls]
        /\ lastOp' = OpRecord("completion effect", Null, <<>>, streakData,
                              {}, {}, lastOp.sinceReset)
        /\ UNCHANGED <<tz, today, streakData, xp, workouts, storedStreak,
                       storedXp, faults, dates, tab2, xpCall>>

\* React applies the oldest pending updater; logGoalCompletion (lines
\* 153-161) runs inside it when the goal turns completed
ApplyUpdater ==
    /\ goalsPage.mounted
    /\ goalsPage.queue # <<>>
    /\ LET goalId == Head(goalsPage.queue)
           result == markGoalAsComplete(goalsPage.goals, goalId)
           event == [type |-> "complete_goal",
                     difficultyMultiplier |-> <<GoalDifficulty[goalId]>>]
           newTotalXp == calculateXp(xp, event, <<>>, <<>>)
       IN  /\ goalsPage' =
                  [goalsPage EXCEPT
                     !.goals = result.goals,
                     !.queue = Tail(@),
                     !.awards[goalId] =
                         IF result.awarded THEN @ + 1 ELSE @,
                     !.last = [goal |-> goalId,
                               wasCompleted |-> goalsPage.goals[goalId],
                               awarded |-> result.awarded]]
           /\ xp' = IF result.awarded THEN newTotalXp ELSE xp
           /\ storedXp' =
                  IF result.awarded
                  THEN setItem(storedXp, saveXp(newTotalXp), TRUE)
                  ELSE storedXp
           /\ lastOp' = OpRecord("markGoalAsComplete", Null,
                                 <<GoalDifficulty[goalId]>>, streakData,
                                 IF result.awarded
                                 THEN xpToasts(event, <<>>, <<>>, TRUE)
                                 ELSE {},
                                 {}, lastOp.sinceReset)
    /\ UNCHANGED <<tz, today, streakData, workouts, storedStreak, faults,
                   dates, tab2, xpCall>>

\* The page renders again: the effect's closure sees the current goals
Render ==
    /\ goalsPage.mounted
    /\ goalsPage.rendered # goalsPage.goals
    /\ goalsPage' = [goalsPage EXCEPT !.rendered = goalsPage.goals]
    /\ lastOp' = OpRecord("render", Null, <<>>, streakData, {}, {},
                          lastOp.sinceReset)
    /\ UNCHANGED <<tz, today, streakData, xp, workouts, storedStreak,
                   storedXp, faults, dates, tab2, xpCall>>

NextGoals ==
    \/ GoalsMount
    \/ AddWorkoutGoals
    \/ CompletionEffect
    \/ ApplyUpdater
    \/ Render

SpecGoals == Init /\ [][NextGoals]_vars

----------------------------------------------------------------------------
(* The program with the calendar days of its workouts counted: dates holds
   the local day of every workout added since the last reset *)

\* (line 75 drops the hour of the workout, so one hour is enough here)
AddWorkoutDated ==
    \E d \in Days :
        /\ workouts < MaxDatesWorkouts
        /\ addWorkoutStored(d, 0, TRUE, TRUE)
        /\ dates' = dates \cup {d}

TickDates == tick(MaxDatesDay)

NextDates == Mount \/ AddWorkoutDated \/ ResetWorkouts \/ TickDates

SpecDates == Init /\ [][NextDates]_vars

----------------------------------------------------------------------------
(* calculateXp called for one workout after the other: each call's previous
   snapshot is the current snapshot of the call before, and the streak never
   goes down.  xpCall also keeps the thresholds whose bonus a call has added
   and whether one of them was added twice. *)

\* The thresholds whose bonus accounts for a gain above the base award
Contributed(gain) ==
    {m \in {MilestoneDays[i] : i \in DOMAIN MilestoneDays} :
        STREAK_MILESTONE_XP(m) = gain - BASE_WORKOUT_XP}

InitChain ==
    /\ tz = 0
    /\ today = 2
    /\ streakData = defaultStreakData
    /\ xp = 0
    /\ workouts = 0
    /\ storedStreak = <<>>
    /\ storedXp = <<>>
    /\ faults = 0
    /\ dates = {}
    /\ tab2 = ClosedTab
    /\ goalsPage = NoGoalsPage
    /\ xpCall = [currentXp |-> 0, previous |-> 0, current |-> 0,
                 pending |-> FALSE, result |-> 0, calls |-> 0,
                 bonuses |-> {}, repeated |-> FALSE]
    /\ lastOp = OpRecord("init", Null, <<>>, defaultStreakData, {}, {}, FALSE)

ChainAward ==
    \E c \in 0..MaxSnapshotStreak :
        LET previousStreakData == snapshot(xpCall.current)
            currentStreakData == snapshot(c)
            event == [type |-> "log_workout"]
            newTotalXp == calculateXp(xp, event, <<currentStreakData>>,
                                      <<previousStreakData>>)
            added == Contributed(newTotalXp - xp)
        IN  /\ c >= xpCall.current
            /\ xpCall.calls < MaxChainCalls
            /\ xp' = newTotalXp
            /\ storedXp' = setItem(storedXp, saveXp(newTotalXp), TRUE)
            /\ xpCall' = [currentXp |-> xp, previous |-> xpCall.current,
                          current |-> c, pending |-> FALSE,
                          result |-> newTotalXp, calls |-> xpCall.calls + 1,
                          bonuses |-> xpCall.bonuses \cup added,
                          repeated |-> xpCall.repeated
                                         \/ added \cap xpCall.bonuses # {}]
            /\ lastOp' = OpRecord("log_workout", Null, <<>>,
                                  previousStreakData,
                                  xpToasts(event, <<currentStreakData>>,
                                           <<previousStreakData>>, TRUE),
                                  {}, FALSE)
            /\ UNCHANGED <<dates, tab2, goalsPage>>
            /\ UNCHANGED <<tz, today, streakData, workouts, storedStreak,
                           faults>>

NextChain == ChainAward

SpecChain == InitChain /\ [][NextChain]_vars

----------------------------------------------------------------------------
(* The gap-check on its own: page loads, one after the other, over any stored
   record *)

\* The records the store may hold when the page is opened
StoredRecords ==
    {[currentStreak |-> c, longestStreak |-> c, lastWorkoutDate |-> l,
      streakFreezes |-> f, lastFreezeEarnedDate |-> Null] :
        c \in 1..MaxStoredStreak, l \in {Null} \cup Days,
        f \in 0..MaxStoredFreezes}

InitGapCheck ==
    /\ tz \in TimeZones
    /\ today \in Days
    /\ streakData = defaultStreakData
    /\ xp = 0
    /\ workouts = 0
    /\ storedStreak \in {saveStreakData(S) : S \in StoredRecords}
    /\ storedXp = <<>>
    /\ faults = 0
    /\ dates = {}
    /\ tab2 = ClosedTab
    /\ goalsPage = NoGoalsPage
    /\ xpCall = NoCall
    /\ lastOp = OpRecord("init", Null, <<>>, defaultStreakData, {}, {}, FALSE)

NextGapCheck == Mount

SpecGapCheck == InitGapCheck /\ [][NextGapCheck]_vars

----------------------------------------------------------------------------
(* Properties *)

Weekday(day) == day % 7
Recorded == lastOp.op = "recordWorkout"
Loaded == lastOp.op = "load" /\ lastOp.today = today
Before == lastOp.prevStreak

\* C1: from the default record, after any sequence of load, recordWorkout and
\* reset, longestStreak >= currentStreak in the record held in memory and in
\* the record persisted.
C1_LongestAtLeastCurrent ==
    /\ streakData.longestStreak >= streakData.currentStreak
    /\ storedStreak # <<>> =>
           storedStreak[1].longestStreak >= storedStreak[1].currentStreak

\* C1 witness: a workout has just raised currentStreak to a new longest
C1_Witness ==
    /\ Recorded
    /\ streakData.currentStreak >= 2
    /\ streakData.longestStreak = streakData.currentStreak
    /\ Before.longestStreak < streakData.longestStreak
    /\ storedStreak = <<streakData>>

\* C2: when the loaded record's lastWorkoutDate is a Saturday with
\* currentStreak = n >= 1, the load runs on the following Monday and the next
\* operation is recordWorkout dated that Monday, then streakFreezes is as
\* before the load and the resulting currentStreak is at least n.
C2_RestDayKeepsStreak ==
    [][(/\ Loaded
        /\ Before.lastWorkoutDate # Null
        /\ Weekday(Before.lastWorkoutDate) = 6
        /\ today = Before.lastWorkoutDate + 2
        /\ Before.currentStreak >= 1
        /\ lastOp'.op = "recordWorkout"
        /\ lastOp'.date = today)
       => (/\ streakData'.streakFreezes = Before.streakFreezes
           /\ streakData'.currentStreak >= Before.currentStreak)]_vars

\* The milestone table as the claims state it
ClaimedBonus(m) ==
    CASE m = 7 -> 50 [] m = 14 -> 100 [] m = 30 -> 250 [] m = 60 -> 500

\* C3: a workout logged through addWorkout that raises currentStreak from 6
\* to 7 raises the XP total by exactly 60; 13 -> 14 by 110, 29 -> 30 by 260,
\* 59 -> 60 by 510.
C3_MilestoneXpOnLog ==
    Recorded =>
        \A m \in {7, 14, 30, 60} :
            (Before.currentStreak = m - 1 /\ streakData.currentStreak = m)
                => xp = lastOp.prevXp + 10 + ClaimedBonus(m)

\* The smallest threshold m with p < m <= c, or 0 when there is none
SmallestCrossed(p, c) ==
    LET crossed == {m \in {7, 14, 30, 60} : p < m /\ m <= c}
    IN  IF crossed = {} THEN 0
        ELSE CHOOSE m \in crossed : \A n \in crossed : m <= n

\* C4: calculateXp for log_workout with both snapshots returns
\* currentXp + 10 + the bonus of the smallest threshold m with p < m <= c,
\* and currentXp + 10 when no threshold is crossed; never more than one bonus.
C4_SmallestCrossedBonus ==
    (lastOp.op = "award" /\ ~xpCall.pending) =>
        LET m == SmallestCrossed(xpCall.previous, xpCall.current)
        IN  xpCall.result =
                xpCall.currentXp + 10 + (IF m = 0 THEN 0 ELSE ClaimedBonus(m))

\* C4 witness: the call with p = 6 and c = 14 has returned currentXp + 60
C4_Witness ==
    /\ lastOp.op = "award"
    /\ ~xpCall.pending
    /\ xpCall.previous = 6
    /\ xpCall.current = 14
    /\ xpCall.result = xpCall.currentXp + 60

\* C5: recordWorkout dated the calendar day of a non-null lastWorkoutDate
\* returns the record unchanged in all five fields.
C5_SameDayRelogIsIdentity ==
    (Recorded /\ Before.lastWorkoutDate # Null
              /\ lastOp.date = Before.lastWorkoutDate)
        => (streakData = Before /\ storedStreak = <<Before>>)

\* C5 witness: a same-day re-log on a running streak that holds a freeze date
C5_Witness ==
    /\ Recorded
    /\ Before.lastWorkoutDate # Null
    /\ lastOp.date = Before.lastWorkoutDate
    /\ Before.currentStreak >= 2

\* C6: recordWorkout dated the day after a non-null lastWorkoutDate Y returns
\* currentStreak + 1 and lastWorkoutDate = Y + 1.
C6_NextDayIncrements ==
    (Recorded /\ Before.lastWorkoutDate # Null
              /\ lastOp.date = Before.lastWorkoutDate + 1)
        => (/\ streakData.currentStreak = Before.currentStreak + 1
            /\ streakData.lastWorkoutDate = Before.lastWorkoutDate + 1)

\* C7: recordWorkout returns currentStreak = 1 when lastWorkoutDate is null
\* and when the workout is dated k > 1 days after lastWorkoutDate; it never
\* consumes a freeze.
C7_NewRunStartsAtOne ==
    (Recorded /\ (\/ Before.lastWorkoutDate = Null
                  \/ lastOp.date > Before.lastWorkoutDate + 1))
        => (/\ streakData.currentStreak = 1
            /\ streakData.streakFreezes >= Before.streakFreezes)

\* C8: streakFreezes grows by exactly 1, and lastFreezeEarnedDate becomes the
\* workout date, in every recordWorkout step that raises currentStreak to a
\* positive multiple of 7; no other recordWorkout or gap-check step raises
\* streakFreezes or moves lastFreezeEarnedDate.
C8_FreezePerMilestone ==
    /\ Recorded =>
          IF /\ streakData.currentStreak > Before.currentStreak
             /\ streakData.currentStreak % 7 = 0
          THEN /\ streakData.streakFreezes = Before.streakFreezes + 1
               /\ streakData.lastFreezeEarnedDate = lastOp.date
          ELSE /\ streakData.streakFreezes = Before.streakFreezes
               /\ streakData.lastFreezeEarnedDate = Before.lastFreezeEarnedDate
    /\ Loaded =>
          /\ streakData.streakFreezes <= Before.streakFreezes
          /\ streakData.lastFreezeEarnedDate = Before.lastFreezeEarnedDate

\* The gap of a loaded record: today - lastWorkoutDate, and whether the
\* Sunday exception covers it (gap 2 with yesterday a Sunday)
Gap == today - Before.lastWorkoutDate
SundayExempt == Gap = 2 /\ Weekday(today - 1) = 0

\* C9: a load whose record has lastWorkoutDate = today - g, g >= 2, outside
\* the Sunday exception, and streakFreezes >= g - 1 returns streakFreezes
\* reduced by g - 1, currentStreak and longestStreak unchanged and
\* lastWorkoutDate = today - 1.
C9_FreezesBridgeGap ==
    (Loaded /\ Before.lastWorkoutDate # Null /\ Gap >= 2 /\ ~SundayExempt
            /\ Before.streakFreezes >= Gap - 1)
        => streakData = [Before EXCEPT !.streakFreezes = @ - (Gap - 1),
                                       !.lastWorkoutDate = today - 1]

\* C10: a load whose record has lastWorkoutDate = today - g, g >= 2, outside
\* the Sunday exception, and streakFreezes < g - 1 sets currentStreak to 0 and
\* leaves the other four fields unchanged.
C10_ResetIsAllOrNothing ==
    (Loaded /\ Before.lastWorkoutDate # Null /\ Gap >= 2 /\ ~SundayExempt
            /\ Before.streakFreezes < Gap - 1)
        => streakData = [Before EXCEPT !.currentStreak = 0]


\* A page load that could read the store has just run its gap-check
Checked == Loaded /\ "read" \notin lastOp.failed

\* C11: the gap-check returns the record with every field unchanged, and
\* writes nothing, when lastWorkoutDate is null, when it equals today, when
\* the gap is exactly 1 day, and when the gap is exactly 2 days and yesterday
\* is a Sunday.
C11_GapCheckNoOp ==
    (/\ Checked
     /\ \/ Before.lastWorkoutDate = Null
        \/ Before.lastWorkoutDate = today
        \/ Before.lastWorkoutDate = today - 1
        \/ Before.lastWorkoutDate = today - 2 /\ Weekday(today - 1) = 0)
        => (streakData = Before /\ storedStreak = lastOp.prevStoredStreak)

\* C11 witness: a live streak whose last workout is two days back, with a
\* Sunday in between, has gone through the gap-check unchanged
C11_Witness ==
    /\ Checked
    /\ Before.lastWorkoutDate = today - 2
    /\ Weekday(today - 1) = 0
    /\ Before.currentStreak >= 1
    /\ streakData = Before

\* C19: in every step of recordWorkout, gap-check or reset, currentStreak
\* stays the same, increases by exactly 1, becomes 1 or becomes 0.
C19_StreakStepsByOne ==
    (Recorded \/ Checked \/ lastOp.op = "reset") =>
        \/ streakData.currentStreak = Before.currentStreak
        \/ streakData.currentStreak = Before.currentStreak + 1
        \/ streakData.currentStreak = 1
        \/ streakData.currentStreak = 0

\* C19 witness: a gap-check has just broken a streak of two or more
C19_Witness ==
    /\ Checked
    /\ Before.currentStreak >= 2
    /\ streakData.currentStreak = 0

\* C20: currentStreak, longestStreak and streakFreezes are non-negative in
\* every reachable state, in memory and as persisted, and no step other
\* than reset lowers longestStreak.
C20_NonNegativeAndLongestMonotone ==
    /\ [](/\ streakData.currentStreak >= 0
          /\ streakData.longestStreak >= 0
          /\ streakData.streakFreezes >= 0
          /\ storedStreak # <<>> =>
                 /\ storedStreak[1].currentStreak >= 0
                 /\ storedStreak[1].longestStreak >= 0
                 /\ storedStreak[1].streakFreezes >= 0)
    /\ [][lastOp'.op # "reset" =>
              streakData'.longestStreak >= streakData.longestStreak]_vars

\* C20 witness: a gap-check has just spent the last freeze on a missed day
C20_Witness ==
    /\ Checked
    /\ Before.streakFreezes = 1
    /\ streakData.streakFreezes = 0
    /\ streakData.longestStreak >= 7
    /\ "Streak Saved!" \in lastOp.toasts

\* C12: reset leaves the default StreakData and the XP total 0, and every
\* load that follows it, on the same day or a later one, returns the same
\* defaults.
C12_ResetThenLoadIsDefault ==
    (lastOp.sinceReset /\ lastOp.op \in {"reset", "load"}) =>
        /\ streakData = [currentStreak |-> 0, longestStreak |-> 0,
                         lastWorkoutDate |-> Null, streakFreezes |-> 0,
                         lastFreezeEarnedDate |-> Null]
        /\ xp = 0

\* C12 witness: a load on a later day than the reset has returned defaults
C12_Witness ==
    /\ Checked
    /\ lastOp.sinceReset
    /\ today >= 4
    /\ streakData.currentStreak = 0
    /\ xp = 0

\* C15: logGoalCompletion leaves the StreakData in memory, the persisted
\* StreakData and the workout collection as they were.
C15_GoalCompletionTouchesOnlyXp ==
    lastOp.op = "logGoalCompletion" =>
        /\ streakData = Before
        /\ storedStreak = lastOp.prevStoredStreak
        /\ workouts = lastOp.prevWorkouts

\* C15 witness: a goal was completed while a streak and workouts existed
C15_Witness ==
    /\ lastOp.op = "logGoalCompletion"
    /\ xp > lastOp.prevXp
    /\ streakData.currentStreak >= 1
    /\ storedStreak = <<streakData>>
    /\ workouts >= 1

\* C16: when the write of the streak record or of the XP total fails during
\* recordWorkout, the gap-check or an award, the operation returns the state
\* it returns with a working store and the persisted value stays as it was.
C16_FailedWriteKeepsResult ==
    /\ (Recorded /\ "streak write" \in lastOp.failed) =>
           /\ streakData = updateStreakData(tz, Before, 24 * lastOp.date)
           /\ storedStreak = lastOp.prevStoredStreak
    /\ (Checked /\ "streak write" \in lastOp.failed) =>
           /\ streakData = checkAndResetStreak(tz, Before, today)
           /\ storedStreak = lastOp.prevStoredStreak
    /\ (Recorded /\ "xp write" \in lastOp.failed) =>
           /\ xp = calculateXp(lastOp.prevXp, [type |-> "log_workout"],
                               <<Before>>, <<Before>>)
           /\ storedXp = lastOp.prevStoredXp
    /\ (lastOp.op = "logGoalCompletion" /\ "xp write" \in lastOp.failed) =>
           /\ xp = calculateXp(lastOp.prevXp,
                               [type |-> "complete_goal",
                                difficultyMultiplier |-> lastOp.multiplier],
                               <<>>, <<>>)
           /\ storedXp = lastOp.prevStoredXp

\* C16 witness: a workout extended the streak in memory although the write
\* of the record failed, and the store still holds the record from before
C16_Witness ==
    /\ Recorded
    /\ "streak write" \in lastOp.failed
    /\ streakData.currentStreak = Before.currentStreak + 1
    /\ Before.currentStreak >= 1
    /\ storedStreak = <<Before>>
    /\ xp = lastOp.prevXp + 10

\* The toast titles that report a storage failure
FailureToasts == {"XP Save Error", "Error"}

\* C17: whenever a write of the streak record or of the XP total fails, or a
\* read or parse of either fails, a notification is emitted for that failure.
C17_EveryStorageFailureNotified ==
    /\ lastOp.failed # {} => lastOp.toasts \cap FailureToasts # {}
    /\ (Checked /\ (lastOp.prevStoredStreak = <<CorruptJson>>
                    \/ lastOp.prevStoredXp \in NotNumbers))
           => lastOp.toasts \cap FailureToasts # {}

\* C18: when the persisted streak record cannot be read or parsed, load
\* returns the default StreakData; when the persisted XP is absent,
\* unreadable or not a number, load returns 0.
C18_UnreadableLoadsDefault ==
    Loaded =>
        /\ ("read" \in lastOp.failed \/ lastOp.prevStoredStreak = <<CorruptJson>>)
               => streakData = defaultStreakData
        /\ ("read" \in lastOp.failed \/ lastOp.prevStoredXp = <<>>
                \/ lastOp.prevStoredXp \in NotNumbers)
               => xp = 0

\* calculateXp has just returned
XpAwarded ==
    lastOp.op \in {"log_workout", "complete_goal", "complete_daily_target"}

\* C13: after any award call (log_workout, complete_goal with any
\* multiplier, complete_daily_target) the new total is >= the previous total
\* and >= 0.
C13_XpNeverDecreases ==
    XpAwarded => (xp >= lastOp.prevXp /\ xp >= 0)

\* C13 as amended: an award call for log_workout, complete_daily_target or
\* complete_goal with an omitted or non-negative multiplier returns a total
\* >= the previous one, and >= 0 when the previous one is; a load returns
\* what the last award returned and only reset sets 0.
C13_XpNeverDecreasesNonNegativeMultiplier ==
    /\ (XpAwarded /\ (lastOp.multiplier = <<>> \/ lastOp.multiplier[1] >= 0))
           => /\ xp >= lastOp.prevXp
              /\ lastOp.prevXp >= 0 => xp >= 0
    /\ lastOp.op = "loadXp" => xp = lastOp.prevXp
    /\ lastOp.op = "resetXp" => xp = 0

\* C13 witness: a goal with the multiplier 0.004 left a positive total as
\* it was
C13_Witness ==
    /\ lastOp.op = "complete_goal"
    /\ lastOp.multiplier = <<4>>
    /\ lastOp.prevXp > 0
    /\ xp = lastOp.prevXp

\* Math.round(100 * m) for the multiplier m = k / 1000, k >= 0
RoundedGoalXp(k) == (k + 5) \div 10

\* C14: complete_goal returns currentXp + round(100 * m) for every
\* multiplier m >= 0 and currentXp + 100 when the multiplier is omitted;
\* complete_daily_target returns currentXp + 5.
C14_GoalAwardIsRoundedProduct ==
    /\ (lastOp.op = "complete_goal" /\ lastOp.multiplier = <<>>)
           => xp = lastOp.prevXp + 100
    /\ (lastOp.op = "complete_goal" /\ lastOp.multiplier # <<>>
            /\ lastOp.multiplier[1] >= 0)
           => xp = lastOp.prevXp + RoundedGoalXp(lastOp.multiplier[1])
    /\ lastOp.op = "complete_daily_target" => xp = lastOp.prevXp + 5

\* C23: recordWorkout dated strictly earlier than a non-null lastWorkoutDate
\* returns the record unchanged in every field.
C23_PastWorkoutChangesNothing ==
    (Recorded /\ Before.lastWorkoutDate # Null
              /\ lastOp.date < Before.lastWorkoutDate)
        => (streakData = Before /\ storedStreak = <<Before>>)

\* C23 witness: a workout dated two or more days before the last one was
\* logged on a live streak
C23_Witness ==
    /\ Recorded
    /\ Before.currentStreak >= 2
    /\ lastOp.date + 2 <= Before.lastWorkoutDate
    /\ streakData = Before

\* A load has just paid for a gap with freezes
Bridged == Checked /\ streakData.streakFreezes < Before.streakFreezes

\* C24: when a load on day T has consumed freezes for a gap, leaving
\* currentStreak = n, a recordWorkout dated T that follows yields
\* currentStreak = n + 1, and a second load on day T consumes no further
\* freeze.
C24_BridgedStreakContinues ==
    [][Bridged =>
          /\ (lastOp'.op = "recordWorkout" /\ lastOp'.date = today)
                 => streakData'.currentStreak = streakData.currentStreak + 1
          /\ (lastOp'.op = "load" /\ today' = today)
                 => streakData'.streakFreezes = streakData.streakFreezes]_vars

\* C24 witness: on a record whose only freeze is spent and whose
\* lastWorkoutDate is the day before today, a workout dated today has raised
\* a streak of 7 or more by one
C24_Witness ==
    /\ Recorded
    /\ lastOp.date = today
    /\ Before.lastFreezeEarnedDate # Null
    /\ Before.streakFreezes = 0
    /\ Before.currentStreak >= 7
    /\ Before.lastWorkoutDate > Before.lastFreezeEarnedDate
    /\ streakData.currentStreak = Before.currentStreak + 1

\* The toast titles of the gap-check
GapCheckToasts == {"Streak Saved!", "Streak Reset"}

\* C25: a load emits a notification if and only if its gap-check changed
\* the StreakData.
C25_NotifiesIffChanged ==
    Checked => ((lastOp.toasts \cap GapCheckToasts # {}) <=> (streakData # Before))

\* C26: every addWorkout raises the XP total by at least 10, and a further
\* addWorkout for the same calendar day leaves currentStreak as it is.
C26_EveryLogEarnsBaseXp ==
    /\ [](Recorded => xp >= lastOp.prevXp + 10)
    /\ [][(Recorded /\ lastOp'.op = "recordWorkout"
                    /\ lastOp'.date = lastOp.date)
             => /\ streakData'.currentStreak = streakData.currentStreak
                /\ xp' >= xp + 10]_vars

\* C26 witness: a repeated log for today left the record as it was and
\* added 10 XP
C26_Witness ==
    /\ Recorded
    /\ lastOp.date = today
    /\ Before.currentStreak >= 1
    /\ streakData = Before
    /\ workouts >= 2
    /\ xp = lastOp.prevXp + 10

\* C27: lastWorkoutDate, once set, is moved back by no step other than
\* reset, and a non-null lastFreezeEarnedDate is not later than it.
C27_LastWorkoutDateMonotone ==
    /\ [](streakData.lastFreezeEarnedDate # Null =>
              /\ streakData.lastWorkoutDate # Null
              /\ streakData.lastFreezeEarnedDate <= streakData.lastWorkoutDate)
    /\ [][(streakData.lastWorkoutDate # Null /\ lastOp'.op # "reset")
             => streakData'.lastWorkoutDate >= streakData.lastWorkoutDate]_vars

\* C27 witness: a gap-check has moved lastWorkoutDate forward, past the day
\* the freeze was earned
C27_Witness ==
    /\ Checked
    /\ streakData.lastFreezeEarnedDate # Null
    /\ Before.lastWorkoutDate = streakData.lastFreezeEarnedDate
    /\ streakData.lastWorkoutDate > Before.lastWorkoutDate

\* C28: for every stored record and every day, a second gap-check on the
\* same day returns the record the first one returned and leaves the store
\* as the first one left it.
C28_GapCheckIdempotent ==
    [][(lastOp.op = "load" /\ lastOp'.op = "load" /\ today' = today)
          => (streakData' = streakData /\ storedStreak' = storedStreak)]_vars

\* C28 witness: the gap-check has run again on a record whose streak an
\* earlier gap-check broke, and returned it as it was
C28_Witness ==
    /\ Checked
    /\ Before.currentStreak = 0
    /\ "Streak Reset" \in lastOp.toasts
    /\ streakData = Before
    /\ storedStreak = <<Before>>

\* C21: over any sequence of log_workout awards in which each call's
\* previousStreak is the preceding call's currentStreak and currentStreak
\* never decreases, each threshold contributes its bonus in at most one call.
C21_MilestoneAwardedOnce == ~xpCall.repeated

\* C21 witness: after the call that paid the 7-day bonus, a call with a
\* streak that rose further, short of 14, paid the base award only
C21_Witness ==
    /\ 7 \in xpCall.bonuses
    /\ xpCall.previous >= 7
    /\ xpCall.current > xpCall.previous
    /\ xpCall.current < 14
    /\ xpCall.result = xpCall.currentXp + 10
    /\ ~xpCall.repeated

C22_LastWriteWins ==
    /\ Recorded =>
           /\ xp = lastOp.prevXp + 10
           /\ storedStreak = <<streakData>>
           /\ storedXp = xpToString(xp)
    /\ lastOp.op = "logGoalCompletion" =>
           /\ xp = lastOp.prevXp + RoundedGoalXp(lastOp.multiplier[1])
           /\ storedXp = xpToString(xp)
    /\ lastOp.op = "tab2 recordWorkout" =>
           /\ tab2.xp = lastOp.prevXp + 10
           /\ storedStreak = <<tab2.streakData>>
           /\ storedXp = xpToString(tab2.xp)
    /\ lastOp.op = "tab2 logGoalCompletion" =>
           /\ tab2.xp = lastOp.prevXp + RoundedGoalXp(lastOp.multiplier[1])
           /\ storedXp = xpToString(tab2.xp)

\* C22 witness: the first tab had stored a streak of 1 and 10 XP for its
\* workout; the second tab, opened before that, logged its own workout and
\* stored 10 XP again: the first tab's award is lost
C22_Witness ==
    /\ lastOp.op = "tab2 recordWorkout"
    /\ xp = 10
    /\ workouts = 1
    /\ lastOp.prevXp = 0
    /\ lastOp.prevStoredXp = xpToString(10)
    /\ tab2.xp = 10
    /\ storedXp = xpToString(10)

\* C30: whatever the interleaving of workout additions, runs of the
\* completion effect and applied updaters, logGoalCompletion has been called
\* at most once per goal, only for a goal that is now completed, and the
\* updater applied last awarded exactly when it found the goal not completed.
C30_GoalAwardedOnce ==
    goalsPage.mounted =>
        /\ \A g \in GoalIds :
               /\ goalsPage.awards[g] <= 1
               /\ goalsPage.awards[g] = 1 <=> goalsPage.goals[g]
        /\ goalsPage.last.goal \in GoalIds =>
               /\ goalsPage.last.awarded <=> ~goalsPage.last.wasCompleted
               /\ goalsPage.goals[goalsPage.last.goal]

\* C30 witness: the effect ran twice over a render that showed goal 1 as not
\* completed; the first updater awarded, the second found it completed and
\* awarded nothing
C30_Witness ==
    /\ goalsPage.mounted
    /\ lastOp.op = "markGoalAsComplete"
    /\ goalsPage.last = [goal |-> 1, wasCompleted |-> TRUE, awarded |-> FALSE]
    /\ goalsPage.awards[1] = 1
    /\ xp = lastOp.prevXp
    /\ ~goalsPage.rendered[1]

====
